---- MODULE Spec2Model ----
(***************************************************************************)
(* Model of Notebooks_and_Scripts/notebook.ipynb: the temperature unit     *)
(* correction, create_features (calendar date, sort, grouped lags, rolling *)
(* statistics over the shifted series, lag differences), and the           *)
(* prediction assembly (training loop, wind-direction reconstruction,      *)
(* clipping, merge with the sample submission, fillna).                    *)
(*                                                                         *)
(* A cell of a numeric column is <<>> when undefined (NaN / NaT / <NA>)    *)
(* and <<v>> when it holds the integer v.  A rolling mean is the exact     *)
(* fraction <<sum, count>>, a rolling std is the exact sample variance     *)
(* <<numerator, denominator>> (its square root is the std), a rolling      *)
(* median is <<lower + upper, 2>>.                                         *)
(***************************************************************************)
EXTENDS Integers, Sequences, FiniteSets, TLC

VARIABLES pc,                 \* the statement the script is at
          df, columns,        \* the combined table and its column names
          lags, rolls, diffs, \* the engineered feature columns of df
          df_train,           \* the target columns of the historical rows
          test_ids,           \* df_test['ID']
          sample_sub,         \* the IDs of the sample submission
          target_i,           \* position of the training loop in targets_to_predict
          predictions, predictions_final, final_submission,
          submission          \* the rows written to OUTPUT_FILE

featvars == <<df, columns, lags, rolls, diffs>>

postvars == <<df_train, test_ids, sample_sub, target_i, predictions,
              predictions_final, final_submission, submission>>

vars == <<pc, featvars, postvars>>

-----------------------------------------------------------------------------
(* Cells *)

NaN == <<>>

notna(x) == x # NaN

Cell(v) == <<v>>

-----------------------------------------------------------------------------
(* Configuration *)

FEATURE_COLS_FOR_ENGINEERING ==
    <<"Avg_Temperature", "Radiation", "Rain_Amount", "Wind_Speed", "Wind_Direction",
      "Avg_Feels_Like_Temperature", "Evapotranspiration", "Rain_Duration",
      "Temperature_Range", "Feels_Like_Temperature_Range">>

LAGS == <<1, 3, 7, 14, 21, 30, 60>>

ROLLING_WINDOWS == <<3, 7, 14, 30, 60>>

STATS == {"mean", "std", "median", "min", "max"}

DIFFS == {"lag_1_diff_7", "lag_7_diff_30"}

Range(s) == {s[i] : i \in DOMAIN s}

IndexSeq(n) == [i \in 1..n |-> i]

\* A column given by a rule, as the explicit sequence of its cells.
AsSeq(f) == SubSeq(f, 1, Cardinality(DOMAIN f))

base_year == 2000

\* The regions of the model, in the order string comparison gives them.
Kingdoms == <<"Arcadia", "Bellmare">>

KingdomRank(k) == CHOOSE r \in DOMAIN Kingdoms : Kingdoms[r] = k

-----------------------------------------------------------------------------
(* Placeholder datetime: pd.to_datetime of (base_year + Year - 1, Month,   *)
(* Day) with errors='coerce'.  A date is the cell of its day number        *)
(* counted from 1 January of base_year; NaT is the undefined cell.         *)

IsLeap(y) == (y % 4 = 0 /\ y % 100 # 0) \/ y % 400 = 0

DaysInMonth(y, m) ==
    IF m = 2 THEN (IF IsLeap(y) THEN 29 ELSE 28)
    ELSE IF m \in {4, 6, 9, 11} THEN 30 ELSE 31

RECURSIVE DaysBeforeMonth(_, _)
DaysBeforeMonth(y, m) ==
    IF m <= 1 THEN 0 ELSE DaysBeforeMonth(y, m - 1) + DaysInMonth(y, m - 1)

RECURSIVE DaysBeforeYear(_)
DaysBeforeYear(y) ==
    IF y <= base_year THEN 0
    ELSE DaysBeforeYear(y - 1) + (IF IsLeap(y - 1) THEN 366 ELSE 365)

to_datetime(Year, Month, Day) ==
    IF ~notna(Year) \/ ~notna(Month) \/ ~notna(Day) THEN NaN
    ELSE LET y == base_year + Year[1] - 1
             m == Month[1]
             d == Day[1]
         IN IF y < base_year \/ m < 1 \/ m > 12 \/ d < 1 \/ d > DaysInMonth(y, m)
            THEN NaN
            ELSE Cell(DaysBeforeYear(y) + DaysBeforeMonth(y, m) + d - 1)

WithDatetime(row) ==
    [f \in DOMAIN row \cup {"datetime"} |->
        IF f = "datetime" THEN to_datetime(row.Year, row.Month, row.Day) ELSE row[f]]

MakeDatetime(d) == [i \in DOMAIN d |-> WithDatetime(d[i])]

-----------------------------------------------------------------------------
(* df.sort_values(by=['kingdom','datetime'], na_position='first')          *)
(*   .reset_index(drop=True): a stable lexicographic sort, NaT first.      *)

\* Fault: na_position='last'.
DateBefore_na_last(a, b) ==
    IF ~notna(b) THEN notna(a)
    ELSE notna(a) /\ a[1] < b[1]

DateBefore(a, b) ==
    IF ~notna(a) THEN notna(b)
    ELSE notna(b) /\ a[1] < b[1]

KeyBefore(r, s) ==
    \/ KingdomRank(r.kingdom) < KingdomRank(s.kingdom)
    \/ r.kingdom = s.kingdom /\ DateBefore(r.datetime, s.datetime)

KeyEqual(r, s) == r.kingdom = s.kingdom /\ r.datetime = s.datetime

\* The position row i of d takes in the sorted table.
SortPos(d, i) ==
    1 + Cardinality({j \in DOMAIN d :
                        \/ KeyBefore(d[j], d[i])
                        \/ KeyEqual(d[j], d[i]) /\ j < i})

sort_values(d) ==
    [p \in DOMAIN d |-> d[CHOOSE i \in DOMAIN d : SortPos(d, i) = p]]

-----------------------------------------------------------------------------
(* df.groupby('kingdom')[col].shift(k): the value k rows earlier among the *)
(* rows of the same kingdom, undefined when there is no such row.  The     *)
(* result is a plain column aligned with the rows of the table.            *)

\* 1-based position of row i among the rows of its kingdom.
GroupPos(d, i) == Cardinality({j \in 1..i : d[j].kingdom = d[i].kingdom})

\* Fault: a shift of the whole column, not of each kingdom's rows.
GroupShiftAt_ungrouped(d, gp, col, k, i) ==
    IF i - k >= 1 THEN d[i - k][col] ELSE NaN

GroupShiftAt(d, gp, col, k, i) ==
    LET src == {j \in 1..(i - 1) : d[j].kingdom = d[i].kingdom /\ gp[j] = gp[i] - k}
    IN IF src = {} THEN NaN ELSE d[CHOOSE j \in src : TRUE][col]

GroupShift(d, col, k) ==
    LET gp == AsSeq([i \in DOMAIN d |-> GroupPos(d, i)])
    IN AsSeq([i \in DOMAIN d |-> GroupShiftAt(d, gp, col, k, i)])

-----------------------------------------------------------------------------
(* shifted.rolling(window=w, min_periods=max(1, w // 2)) and its five      *)
(* statistics.  `shifted` is the plain column df_col.shift(1) returns, so  *)
(* a window is the trailing w rows of the table.                           *)

Max(a, b) == IF a >= b THEN a ELSE b

\* Fault: the default min_periods of a fixed window, the window itself.
min_periods_default(w) == w

min_periods(w) == Max(1, w \div 2)

\* The defined values among the trailing w elements of s ending at i.
Window(s, w, i) ==
    SelectSeq(SubSeq(s, Max(1, i - w + 1), i), LAMBDA x : notna(x))

RECURSIVE SumTo(_, _)
SumTo(v, n) == IF n = 0 THEN 0 ELSE SumTo(v, n - 1) + v[n][1]

RECURSIVE SumSqTo(_, _)
SumSqTo(v, n) == IF n = 0 THEN 0 ELSE SumSqTo(v, n - 1) + v[n][1] * v[n][1]

\* The r-th smallest value of v (1-based).
Ranked(v, r) ==
    LET x == CHOOSE x \in Range(v) :
                /\ Cardinality({j \in DOMAIN v : v[j][1] < x[1]}) < r
                /\ Cardinality({j \in DOMAIN v : v[j][1] <= x[1]}) >= r
    IN x[1]

roll_mean(v) == <<SumTo(v, Len(v)), Len(v)>>

\* ddof = 1: the sample variance needs two observations.
roll_std(v) ==
    LET n == Len(v)
        s == SumTo(v, n)
    IN IF n < 2 THEN NaN ELSE <<n * SumSqTo(v, n) - s * s, n * (n - 1)>>

roll_median(v) ==
    LET n == Len(v)
    IN <<Ranked(v, (n + 1) \div 2) + Ranked(v, n \div 2 + 1), 2>>

RECURSIVE MinTo(_, _)
MinTo(v, n) ==
    IF n = 1 THEN v[1][1]
    ELSE LET m == MinTo(v, n - 1) IN IF v[n][1] < m THEN v[n][1] ELSE m

RECURSIVE MaxTo(_, _)
MaxTo(v, n) ==
    IF n = 1 THEN v[1][1]
    ELSE LET m == MaxTo(v, n - 1) IN IF v[n][1] > m THEN v[n][1] ELSE m

roll_min(v) == Cell(MinTo(v, Len(v)))

roll_max(v) == Cell(MaxTo(v, Len(v)))

RollStat(st, v) ==
    CASE st = "mean" -> roll_mean(v)
      [] st = "std" -> roll_std(v)
      [] st = "median" -> roll_median(v)
      [] st = "min" -> roll_min(v)
      [] st = "max" -> roll_max(v)

Rolling(s, w, st) ==
    AsSeq([i \in DOMAIN s |->
            LET v == Window(s, w, i)
            IN IF Len(v) < min_periods(w) THEN NaN ELSE RollStat(st, v)])

-----------------------------------------------------------------------------
(* The feature families of create_features, per engineered column that is  *)
(* present in the table (and numeric).                                     *)

Engineered(cols) == {c \in Range(FEATURE_COLS_FOR_ENGINEERING) : c \in cols}

LagFeatures(d, cols) ==
    [key \in Engineered(cols) \X Range(LAGS) |-> GroupShift(d, key[1], key[2])]

\* Fault: rolling over the column itself instead of its shift by one.
RollFeatures_unshifted(d, cols) ==
    LET unshifted == [c \in Engineered(cols) |-> AsSeq([i \in DOMAIN d |-> d[i][c]])]
    IN [key \in Engineered(cols) \X Range(ROLLING_WINDOWS) \X STATS |->
            Rolling(unshifted[key[1]], key[2], key[3])]

RollFeatures(d, cols) ==
    LET shifted == [c \in Engineered(cols) |-> GroupShift(d, c, 1)]
    IN [key \in Engineered(cols) \X Range(ROLLING_WINDOWS) \X STATS |->
            Rolling(shifted[key[1]], key[2], key[3])]

\* Fault: an undefined operand counted as 0.
Minus_fill0(a, b) ==
    Cell((IF notna(a) THEN a[1] ELSE 0) - (IF notna(b) THEN b[1] ELSE 0))

Minus(a, b) == IF notna(a) /\ notna(b) THEN Cell(a[1] - b[1]) ELSE NaN

LagDiff(lg, c, name, n) ==
    IF name = "lag_1_diff_7"
    THEN [i \in 1..n |-> Minus(lg[<<c, 1>>][i], lg[<<c, 7>>][i])]
    ELSE [i \in 1..n |-> Minus(lg[<<c, 7>>][i], lg[<<c, 30>>][i])]

DiffFeatures(lg, cols, n) ==
    [key \in Engineered(cols) \X DIFFS |-> LagDiff(lg, key[1], key[2], n)]

\* create_features as a function of the table: the sorted table and the
\* three feature families.
create_features(d, cols) ==
    LET sorted == sort_values(MakeDatetime(d))
        lg == LagFeatures(sorted, cols)
    IN [df |-> sorted,
        lags |-> lg,
        rolls |-> RollFeatures(sorted, cols),
        diffs |-> DiffFeatures(lg, cols, Len(sorted))]

-----------------------------------------------------------------------------
(* Bounds of the model *)

MaxRows == 3

MaxLong == 62

MaxOther == 2

MaxHole == 8

\* The length of the end-to-end scenario (ten days valued 1..10).
ScenarioRows == 10

-----------------------------------------------------------------------------
(* Tables create_features is applied to *)

Days == {[Year |-> Cell(1), Month |-> Cell(1), Day |-> Cell(31)],
         [Year |-> Cell(1), Month |-> Cell(2), Day |-> Cell(1)],
         [Year |-> Cell(1), Month |-> Cell(2), Day |-> Cell(30)],
         [Year |-> NaN, Month |-> Cell(1), Day |-> Cell(1)]}

Values == {NaN, Cell(1), Cell(2)}

Row(id, k, ymd, v) ==
    [ID |-> id, kingdom |-> k, Year |-> ymd.Year, Month |-> ymd.Month,
     Day |-> ymd.Day, Avg_Temperature |-> v]

\* Day n (1-based) of the year base_year, as Year/Month/Day cells.
DayOfYear(n) ==
    LET m == CHOOSE m \in 1..12 :
                DaysBeforeMonth(base_year, m) < n
                /\ n <= DaysBeforeMonth(base_year, m) + DaysInMonth(base_year, m)
    IN [Year |-> Cell(1), Month |-> Cell(m),
        Day |-> Cell(n - DaysBeforeMonth(base_year, m))]

\* Any kingdoms and dates in any input order; each row's value is its ID.
OrderTables ==
    UNION {{[i \in 1..n |-> Row(i, f[i][1], f[i][2], Cell(i))] :
                f \in [1..n -> Range(Kingdoms) \X Days]} : n \in 0..(MaxRows + 1)}

\* Any kingdoms and values; row i is dated day i.
ValueTables ==
    UNION {{[i \in 1..n |-> Row(i, f[i][1], DayOfYear(i), f[i][2])] :
                f \in [1..n -> Range(Kingdoms) \X Values]} : n \in 0..MaxRows}

\* The prediction stage has not started.
PostIdle ==
    /\ df_train = <<>>
    /\ test_ids = <<>>
    /\ sample_sub = <<>>
    /\ target_i = 0
    /\ predictions = <<>>
    /\ predictions_final = <<>>
    /\ final_submission = <<>>
    /\ submission = <<>>

InitWith(tables) ==
    /\ pc = "datetime"
    /\ df \in tables
    /\ columns = {"ID", "kingdom", "Year", "Month", "Day", "Avg_Temperature"}
    /\ lags = <<>>
    /\ rolls = <<>>
    /\ diffs = <<>>
    /\ PostIdle

Init == InitWith(OrderTables \cup ValueTables)

\* One long series: Arcadia holds days 1..n with value j on day j, except an
\* undefined value on days h and h + 30 (h = 0: none); the input lists the
\* days in ascending or descending order, after nB rows of Bellmare valued 0.
LongTable(n, h, descending, nB) ==
    [i \in 1..(nB + n) |->
        IF i <= nB THEN Row(i, Kingdoms[2], DayOfYear(i), Cell(0))
        ELSE LET j == IF descending THEN n + 1 - (i - nB) ELSE i - nB
             IN Row(i, Kingdoms[1], DayOfYear(j),
                    IF h > 0 /\ (j = h \/ j = h + 30) THEN NaN ELSE Cell(j))]

LongTables ==
    {LongTable(p[1], p[2], p[3], p[4]) :
        p \in ({ScenarioRows} \cup (MaxLong - 1)..MaxLong) \X (0..MaxHole)
                  \X BOOLEAN \X (0..MaxOther)}

InitLong == InitWith(LongTables)

\* The short tables of any values, and full-length series with and without an undefined value and a second region.
CausalTables ==
    ValueTables \cup {LongTable(MaxLong, h, FALSE, nB) : h \in 0..1, nB \in 0..1}

InitCausal == InitWith(CausalTables)

-----------------------------------------------------------------------------
(* The steps of create_features *)

Datetime ==
    /\ pc = "datetime"
    /\ df' = MakeDatetime(df)
    /\ columns' = columns \cup {"datetime"}
    /\ pc' = "sort"
    /\ UNCHANGED <<lags, rolls, diffs, postvars>>

Sort ==
    /\ pc = "sort"
    /\ df' = sort_values(df)
    /\ pc' = "lagroll"
    /\ UNCHANGED <<columns, lags, rolls, diffs, postvars>>

LagRolling ==
    /\ pc = "lagroll"
    /\ lags' = LagFeatures(df, columns)
    /\ rolls' = RollFeatures(df, columns)
    /\ pc' = "diff"
    /\ UNCHANGED <<df, columns, diffs, postvars>>

LagDifference ==
    /\ pc = "diff"
    /\ diffs' = DiffFeatures(lags, columns, Len(df))
    /\ pc' = "done"
    /\ UNCHANGED <<df, columns, lags, rolls, postvars>>

Next == Datetime \/ Sort \/ LagRolling \/ LagDifference

Spec == Init /\ [][Next]_vars

SpecLong == InitLong /\ [][Next]_vars

SpecCausal == InitCausal /\ [][Next]_vars

-----------------------------------------------------------------------------
(* Temperature conversion.  A temperature is an integer number of          *)
(* 1/Scale degrees, so that 70.0001 and 273.15 are exact.                  *)

Scale == 10000

temp_cols == <<"Avg_Temperature", "Avg_Feels_Like_Temperature">>

kelvin_to_celsius(temp_k) == temp_k - (27315 * Scale) \div 100

\* Fault: a value of exactly 70 taken for Kelvin as well.
IsKelvin_from70(x) == notna(x) /\ x[1] >= 70 * Scale

\* mask = (df[col] > 70) & (~df[col].isnull())
IsKelvin(x) == notna(x) /\ x[1] > 70 * Scale

ConvertColumn(d, col) ==
    [i \in DOMAIN d |->
        IF IsKelvin(d[i][col])
        THEN [d[i] EXCEPT ![col] = Cell(kelvin_to_celsius(d[i][col][1]))]
        ELSE d[i]]

\* The loop over the first n names of temp_cols, skipping absent columns.
RECURSIVE ConvertTemperatures(_, _, _)
ConvertTemperatures(d, cols, n) ==
    IF n = 0 THEN d
    ELSE LET before == ConvertTemperatures(d, cols, n - 1)
         IN IF temp_cols[n] \in cols THEN ConvertColumn(before, temp_cols[n])
            ELSE before

MaxTempRows == 2

\* 69.9999, 70.0, 70.0001 and 293.15 degrees, and the undefined value.
TempValues ==
    {NaN, Cell(70 * Scale - 1), Cell(70 * Scale), Cell(70 * Scale + 1),
     Cell((29315 * Scale) \div 100)}

TempRow(id, cols, v) ==
    [f \in {"ID", "kingdom"} \cup cols |->
        CASE f = "ID" -> id
          [] f = "kingdom" -> Kingdoms[1]
          [] f = temp_cols[1] -> v[1]
          [] f = temp_cols[2] -> v[2]]

TempTables(cols) ==
    UNION {{[i \in 1..n |-> TempRow(i, cols, f[i])] :
                f \in [1..n -> {v \in TempValues \X TempValues :
                                  \A t \in DOMAIN temp_cols :
                                      temp_cols[t] \notin cols => v[t] = NaN}]} :
           n \in 0..MaxTempRows}

InitTemp ==
    /\ pc = "convert"
    /\ \E cols \in SUBSET Range(temp_cols) :
        /\ columns = {"ID", "kingdom"} \cup cols
        /\ df \in TempTables(cols)
    /\ lags = <<>>
    /\ rolls = <<>>
    /\ diffs = <<>>
    /\ PostIdle

Convert ==
    /\ pc = "convert"
    /\ df' = ConvertTemperatures(df, columns, Len(temp_cols))
    /\ pc' = "converted"
    /\ UNCHANGED <<columns, lags, rolls, diffs, postvars>>

NextTemp == Convert

SpecTemp == InitTemp /\ [][NextTemp]_vars

-----------------------------------------------------------------------------
(* Floating point of the prediction stage.  A float is an integer number   *)
(* of 1/Fine; the representable ones have at most PrecBits significant     *)
(* bits, and an operation returns its exact result rounded to the nearest  *)
(* representable value, ties to even.                                      *)

Fine == 128

PrecBits == 8

RECURSIVE Pow2(_)
Pow2(n) == IF n = 0 THEN 1 ELSE 2 * Pow2(n - 1)

Abs(x) == IF x < 0 THEN -x ELSE x

\* The spacing of the representable values around the magnitude m.
RECURSIVE Ulp(_)
Ulp(m) == IF m < Pow2(PrecBits) THEN 1 ELSE 2 * Ulp(m \div 2)

fl(x) ==
    LET m == Abs(x)
        u == Ulp(m)
        q == m \div u
        r == m % u
        n == IF 2 * r > u \/ (2 * r = u /\ q % 2 = 1) THEN (q + 1) * u ELSE q * u
    IN IF x < 0 THEN -n ELSE n

\* Degrees of atan(y / x) for 0 <= y <= x, x > 0: exact on the axis and the
\* diagonal, first order (180/pi = 180 * 113 / 355) for a ratio of at most
\* 1/Fine, where the higher orders are below one unit.
AtanDeg(y, x) ==
    IF y = 0 THEN 0
    ELSE IF y = x THEN 45 * Fine
    ELSE fl((y * Fine * 180 * 113) \div (x * 355))

\* np.rad2deg(np.arctan2(s, c)), in (-180, 180].
arctan2_deg(s, c) ==
    IF ~notna(s) \/ ~notna(c) THEN NaN
    ELSE LET ay == Abs(s[1])
             ax == Abs(c[1])
             acute == IF ay <= ax
                      THEN (IF ax = 0 THEN 0 ELSE AtanDeg(ay, ax))
                      ELSE fl(90 * Fine - AtanDeg(ax, ay))
             unsigned == IF c[1] >= 0 THEN acute ELSE fl(180 * Fine - acute)
         IN Cell(IF s[1] < 0 THEN -unsigned ELSE unsigned)

\* a % b of two floats, b > 0: the C remainder (exact, with the sign of a),
\* moved by b when it is negative.
np_mod(a, b) ==
    IF ~notna(a) THEN NaN
    ELSE LET r == IF a[1] < 0 THEN -((-a[1]) % b) ELSE a[1] % b
         IN Cell(IF r < 0 THEN fl(r + b) ELSE r)

reconstruct(s, c) == np_mod(arctan2_deg(s, c), 360 * Fine)

-----------------------------------------------------------------------------
(* Training loop, post-processing and submission *)

TARGET_COLS_ORIGINAL ==
    <<"Avg_Temperature", "Radiation", "Rain_Amount", "Wind_Speed", "Wind_Direction">>

targets_to_predict ==
    <<"Avg_Temperature", "Radiation", "Rain_Amount", "Wind_Speed",
      "Wind_Direction_sin", "Wind_Direction_cos">>

clipped_cols == {"Radiation", "Rain_Amount", "Wind_Speed"}

final_prediction_columns == <<"ID">> \o TARGET_COLS_ORIGINAL

MaxTest == 1

MaxSample == 2

\* A historical row: its target columns, defined except those of `missing`.
TrainRow(missing) ==
    [t \in Range(targets_to_predict) |-> IF t \in missing THEN NaN ELSE Cell(Fine)]

TrainTables ==
    {<<>>,
     <<TrainRow({})>>,
     <<TrainRow({"Radiation"})>>,
     <<TrainRow({"Wind_Direction_sin", "Wind_Direction_cos"}), TrainRow({"Radiation"})>>}

\* What the regressor may predict (the same value for every test row).
PredictedValues(target) ==
    IF target \in {"Wind_Direction_sin", "Wind_Direction_cos"}
    THEN {NaN, Cell(-Fine), Cell(-1), Cell(0), Cell(1), Cell(Fine)}
    ELSE {NaN, Cell(-Fine), Cell(Fine)}

InitPost ==
    /\ pc = "train"
    /\ df = <<>>
    /\ columns = {}
    /\ lags = <<>>
    /\ rolls = <<>>
    /\ diffs = <<>>
    /\ df_train \in TrainTables
    /\ \E nt \in 0..MaxTest : test_ids = IndexSeq(nt)
    /\ \E ns \in 0..MaxSample : sample_sub = IndexSeq(ns)
    /\ target_i = 1
    /\ predictions = [c \in {"ID"} |-> [i \in DOMAIN test_ids |-> Cell(test_ids[i])]]
    /\ predictions_final = <<>>
    /\ final_submission = <<>>
    /\ submission = <<>>

WithColumn(table, name, col) ==
    [c \in DOMAIN table \cup {name} |-> IF c = name THEN col ELSE table[c]]

\* X_train_target.empty: no historical row has the target defined.
NoTrainingData(target) == \A i \in DOMAIN df_train : df_train[i][target] = NaN

NextTarget ==
    /\ target_i' = target_i + 1
    /\ pc' = IF target_i = Len(targets_to_predict) THEN "postprocess" ELSE "train"

SkipTarget ==
    /\ pc = "train"
    /\ NoTrainingData(targets_to_predict[target_i])
    /\ predictions' = WithColumn(predictions, targets_to_predict[target_i],
                                 [i \in DOMAIN test_ids |-> Cell(0)])
    /\ NextTarget
    /\ UNCHANGED <<featvars, df_train, test_ids, sample_sub, predictions_final,
                   final_submission, submission>>

FitPredict ==
    /\ pc = "train"
    /\ ~NoTrainingData(targets_to_predict[target_i])
    /\ \E v \in PredictedValues(targets_to_predict[target_i]) :
        predictions' = WithColumn(predictions, targets_to_predict[target_i],
                                  [i \in DOMAIN test_ids |-> v])
    /\ NextTarget
    /\ UNCHANGED <<featvars, df_train, test_ids, sample_sub, predictions_final,
                   final_submission, submission>>

PostProcess ==
    /\ pc = "postprocess"
    /\ predictions' =
        WithColumn(predictions, "Wind_Direction",
                   [i \in DOMAIN test_ids |->
                       reconstruct(predictions["Wind_Direction_sin"][i],
                                   predictions["Wind_Direction_cos"][i])])
    /\ pc' = "assemble"
    /\ UNCHANGED <<featvars, df_train, test_ids, sample_sub, target_i,
                   predictions_final, final_submission, submission>>

\* np.maximum(0, x): an undefined x stays undefined.
ClipNegative(x) == IF notna(x) /\ x[1] < 0 THEN Cell(0) ELSE x

Assemble ==
    /\ pc = "assemble"
    /\ predictions_final' =
        [c \in Range(final_prediction_columns) |->
            IF c \in clipped_cols
            THEN [i \in DOMAIN test_ids |-> ClipNegative(predictions[c][i])]
            ELSE predictions[c]]
    /\ pc' = "merge"
    /\ UNCHANGED <<featvars, df_train, test_ids, sample_sub, target_i, predictions,
                   final_submission, submission>>

\* The rows of sample_sub[['ID']].merge(table, on='ID', how='left') for one
\* sample ID: one per matching row of the table, or one of undefined cells.
MergedRows(table, id) ==
    LET hits == SelectSeq(IndexSeq(Len(table["ID"])), LAMBDA i : table["ID"][i] = Cell(id))
    IN IF hits = <<>>
       THEN <<[c \in DOMAIN table |-> IF c = "ID" THEN Cell(id) ELSE NaN]>>
       ELSE [h \in DOMAIN hits |-> [c \in DOMAIN table |-> table[c][hits[h]]]]

RECURSIVE MergeLeft(_, _, _)
MergeLeft(ids, table, n) ==
    IF n = 0 THEN <<>>
    ELSE MergeLeft(ids, table, n - 1) \o MergedRows(table, ids[n])

Merge ==
    /\ pc = "merge"
    /\ final_submission' = MergeLeft(sample_sub, predictions_final, Len(sample_sub))
    /\ pc' = "fillna"
    /\ UNCHANGED <<featvars, df_train, test_ids, sample_sub, target_i, predictions,
                   predictions_final, submission>>

\* Fault: the fill left out.
fillna_unfilled(rows, v) == rows

\* final_submission.fillna(v), applied when any cell is undefined.
fillna(rows, v) ==
    [k \in DOMAIN rows |-> [c \in DOMAIN rows[k] |->
        IF rows[k][c] = NaN THEN Cell(v) ELSE rows[k][c]]]

FillNa ==
    /\ pc = "fillna"
    /\ final_submission' =
        IF \E k \in DOMAIN final_submission, c \in Range(final_prediction_columns) :
              final_submission[k][c] = NaN
        THEN fillna(final_submission, 0)
        ELSE final_submission
    /\ pc' = "write"
    /\ UNCHANGED <<featvars, df_train, test_ids, sample_sub, target_i, predictions,
                   predictions_final, submission>>

Write ==
    /\ pc = "write"
    /\ submission' = final_submission
    /\ pc' = "written"
    /\ UNCHANGED <<featvars, df_train, test_ids, sample_sub, target_i, predictions,
                   predictions_final, final_submission>>

NextPost ==
    SkipTarget \/ FitPredict \/ PostProcess \/ Assemble \/ Merge \/ FillNa \/ Write

SpecPost == InitPost /\ [][NextPost]_vars

-----------------------------------------------------------------------------
(* Vocabulary of the properties *)

Done == pc = "done"

Sorted == pc \in {"lagroll", "diff", "done"}

EngCols == Engineered(columns)

\* The rows of kingdom k in table order (the region's canonical series),
\* as the sequence of their positions in the table.
RegionIdx(d, k) == SelectSeq(IndexSeq(Len(d)), LAMBDA i : d[i].kingdom = k)

PosIn(ser, x) == CHOOSE p \in DOMAIN ser : ser[p] = x

SetCell(d, j, c, v) == [d EXCEPT ![j] = [d[j] EXCEPT ![c] = v]]

SameFraction(a, b) ==
    IF notna(a) /\ notna(b) THEN a[1] * b[2] = b[1] * a[2] ELSE a = b

OneKingdom(d) == \A i, j \in DOMAIN d : d[i].kingdom = d[j].kingdom

-----------------------------------------------------------------------------
\* C2: for every engineered column, every lag k and every row at position p
\* of its region's canonical series, lag_k is the column's value at position
\* p - k of the same region when that position exists and is undefined
\* otherwise; and (on the short tables) replacing the value of any row of
\* another region, or of a row of the same region at a position > p - k,
\* leaves lag_k of the row unchanged.
LagDefinition ==
    Done =>
        \A c \in EngCols, k \in Range(LAGS), i \in DOMAIN df :
            LET ser == RegionIdx(df, df[i].kingdom)
                p == PosIn(ser, i)
            IN /\ lags[<<c, k>>][i] = IF p - k >= 1 THEN df[ser[p - k]][c] ELSE NaN
               /\ Len(df) <= ScenarioRows + MaxOther =>
                    \A j \in DOMAIN df, v \in {NaN, Cell(MaxLong + 1)} :
                        (df[j].kingdom # df[i].kingdom \/ PosIn(ser, j) > p - k) =>
                            GroupShift(SetCell(df, j, c, v), c, k)[i] = lags[<<c, k>>][i]

\* A table where the longest lag is defined, a second region follows the
\* first, and the second region's own lag_1 is defined on its second row.
LagWitness ==
    /\ Done
    /\ \E c \in EngCols, i, j \in DOMAIN df :
        /\ notna(lags[<<c, 60>>][i])
        /\ i < j /\ j + 1 \in DOMAIN df
        /\ df[i].kingdom # df[j].kingdom
        /\ lags[<<c, 1>>][j] = NaN
        /\ lags[<<c, 1>>][j + 1] = df[j][c]

-----------------------------------------------------------------------------
\* C5: in a table of one region with distinct ascending dates and defined
\* values, roll_w_mean at position i (1-based) is the mean of the column at
\* positions max(1, i - w) .. i - 1 when these are at least max(1, w div 2)
\* rows and undefined otherwise; with values 1..10 the last row has
\* lag_1 = 9 and roll_3_mean = 8.
RollingMeanOverHistory ==
    (/\ Done
     /\ OneKingdom(df)
     /\ \A r \in DOMAIN df : notna(df[r].datetime)
     /\ \A r, q \in DOMAIN df : r < q => df[r].datetime # df[q].datetime) =>
        \A c \in EngCols :
            (\A r \in DOMAIN df : notna(df[r][c])) =>
                /\ \A w \in Range(ROLLING_WINDOWS), i \in DOMAIN df :
                    LET lo == IF i - w >= 1 THEN i - w ELSE 1
                        hist == SubSeq([r \in DOMAIN df |-> df[r][c]], lo, i - 1)
                        need == IF w \div 2 >= 1 THEN w \div 2 ELSE 1
                    IN rolls[<<c, w, "mean">>][i] =
                         IF Len(hist) >= need
                         THEN <<SumTo(hist, Len(hist)), Len(hist)>> ELSE NaN
                /\ (Len(df) = 10 /\ \A r \in DOMAIN df : df[r][c] = Cell(r)) =>
                    /\ lags[<<c, 1>>][10] = Cell(9)
                    /\ SameFraction(rolls[<<c, 3, "mean">>][10], <<8, 1>>)

\* The ten-day scenario, and a full 60-row window.
RollingMeanWitness ==
    /\ Done /\ OneKingdom(df) /\ Len(df) > 60
    /\ \A i \in DOMAIN df : df[i].Avg_Temperature = Cell(i)
    /\ rolls[<<"Avg_Temperature", 3, "mean">>][10] = <<24, 3>>
    /\ rolls[<<"Avg_Temperature", 3, "mean">>][1] = NaN
    /\ rolls[<<"Avg_Temperature", 60, "mean">>][30] = NaN
    /\ notna(rolls[<<"Avg_Temperature", 60, "mean">>][31])
    /\ rolls[<<"Avg_Temperature", 60, "mean">>][61][2] = 60

-----------------------------------------------------------------------------
\* C6: for every engineered column and every row, lag_1_diff_7 is
\* lag_1 - lag_7 when both are defined and lag_7_diff_30 is lag_7 - lag_30
\* when both are defined; each is undefined when either operand is.
LagDeltas ==
    Done =>
        \A c \in EngCols, i \in DOMAIN df :
            LET l1 == lags[<<c, 1>>][i]
                l7 == lags[<<c, 7>>][i]
                l30 == lags[<<c, 30>>][i]
            IN /\ diffs[<<c, "lag_1_diff_7">>][i] =
                    IF l1 # NaN /\ l7 # NaN THEN <<l1[1] - l7[1]>> ELSE NaN
               /\ diffs[<<c, "lag_7_diff_30">>][i] =
                    IF l7 # NaN /\ l30 # NaN THEN <<l7[1] - l30[1]>> ELSE NaN

\* lag_1 = 10, lag_7 = 4, lag_30 undefined gives 6 and undefined; elsewhere
\* lag_7_diff_30 is defined while lag_1_diff_7 is not, and both are defined.
LagDeltasWitness ==
    /\ Done
    /\ \E c \in EngCols, i, j, l \in DOMAIN df :
        /\ lags[<<c, 1>>][i] = Cell(10) /\ lags[<<c, 7>>][i] = Cell(4)
        /\ lags[<<c, 30>>][i] = NaN
        /\ diffs[<<c, "lag_1_diff_7">>][i] = Cell(6)
        /\ diffs[<<c, "lag_7_diff_30">>][i] = NaN
        /\ diffs[<<c, "lag_1_diff_7">>][j] = NaN
        /\ notna(diffs[<<c, "lag_7_diff_30">>][j])
        /\ notna(diffs[<<c, "lag_1_diff_7">>][l])
        /\ notna(diffs[<<c, "lag_7_diff_30">>][l])

-----------------------------------------------------------------------------
\* C7: once sorted, the rows of every region are contiguous, their undefined
\* dates come first and their defined dates ascend by calendar date, rows
\* with equal (region, date) keep their input order, the table is a
\* permutation of the input rows, and it is in this row order that lag_1
\* and the rolling windows are computed.
CanonicalOrder ==
    Sorted =>
        /\ {df[i].ID : i \in DOMAIN df} = DOMAIN df
        /\ \A i, j, l \in DOMAIN df :
            (i < j /\ j < l /\ df[i].kingdom = df[l].kingdom) =>
                df[j].kingdom = df[i].kingdom
        /\ \A i, j \in DOMAIN df :
            (i < j /\ df[i].kingdom = df[j].kingdom) =>
                /\ df[j].datetime = NaN => df[i].datetime = NaN
                /\ (df[i].datetime # NaN /\ df[j].datetime # NaN) =>
                    \/ df[i].Year[1] < df[j].Year[1]
                    \/ df[i].Year = df[j].Year /\ df[i].Month[1] < df[j].Month[1]
                    \/ df[i].Year = df[j].Year /\ df[i].Month = df[j].Month
                       /\ df[i].Day[1] <= df[j].Day[1]
                /\ df[i].datetime = df[j].datetime => df[i].ID < df[j].ID
        /\ Done =>
            \A c \in EngCols, i \in DOMAIN df :
                /\ lags[<<c, 1>>][i] =
                     IF i > 1 /\ df[i - 1].kingdom = df[i].kingdom
                     THEN df[i - 1][c] ELSE NaN
                /\ LET seen == {lags[<<c, 1>>][j] : j \in {i - 2, i - 1, i} \cap DOMAIN df}
                                  \ {NaN}
                   IN rolls[<<c, 3, "max">>][i] =
                        IF seen = {} THEN NaN
                        ELSE CHOOSE x \in seen : \A y \in seen : y[1] <= x[1]

\* A sorted table that needed reordering: a region listed after the other
\* in the input, its undefined date listed last, and a tie of equal dates;
\* with the features computed on it.
CanonicalOrderWitness ==
    /\ Done
    /\ \E i, j \in DOMAIN df :
        /\ i < j /\ df[i].kingdom = df[j].kingdom
        /\ df[i].datetime = NaN /\ df[j].datetime # NaN
        /\ df[i].ID > df[j].ID
    /\ \E i, j \in DOMAIN df :
        /\ i < j /\ df[i].kingdom = df[j].kingdom
        /\ df[i].datetime = df[j].datetime /\ df[i].datetime # NaN
        /\ lags[<<"Avg_Temperature", 1>>][j] = Cell(df[i].ID)
    /\ \E i, j \in DOMAIN df : i < j /\ df[i].kingdom # df[j].kingdom /\ df[i].ID > df[j].ID

-----------------------------------------------------------------------------
\* C3: every rolling statistic at row i is unchanged when the column's value
\* at row i, or at a later row of the sorted table, is replaced by another
\* value or by the undefined value (any of four replacements on the short
\* tables, two on the full-length ones).
RollingCausality ==
    Done =>
        \A c \in EngCols, j \in DOMAIN df,
           v \in IF Len(df) <= MaxRows THEN Values \cup {Cell(0)} ELSE {NaN, Cell(0)} :
            LET r2 == RollFeatures(SetCell(df, j, c, v), columns)
            IN \A w \in Range(ROLLING_WINDOWS), st \in STATS :
                LET replaced == r2[<<c, w, st>>]
                IN \A i \in 1..j : replaced[i] = rolls[<<c, w, st>>][i]

\* A row whose rolling mean and std are defined and differ from what its own
\* value would give.
RollingCausalityWitness ==
    /\ Done
    /\ \E c \in EngCols, i \in DOMAIN df :
        /\ i < Len(df)
        /\ \A w \in Range(ROLLING_WINDOWS), st \in STATS : notna(rolls[<<c, w, st>>][i])
        /\ notna(df[i][c])
        /\ rolls[<<c, 60, "max">>][i][1] < df[i][c][1]

-----------------------------------------------------------------------------
\* C1: the lag, rolling and lag-difference values of the rows of a region
\* are the same whether or not the rows of another region are in the table.
RegionIsolation ==
    Done =>
        \A B \in {df[i].kingdom : i \in DOMAIN df} :
            LET without == SelectSeq(df, LAMBDA r : r.kingdom # B)
                alone == create_features(without, columns)
            IN \A i \in DOMAIN df :
                df[i].kingdom # B =>
                    LET a == Cardinality({j \in 1..i : df[j].kingdom # B})
                    IN /\ alone.df[a].ID = df[i].ID
                       /\ \A key \in DOMAIN lags : alone.lags[key][a] = lags[key][i]
                       /\ \A key \in DOMAIN diffs : alone.diffs[key][a] = diffs[key][i]
                       /\ \A key \in DOMAIN rolls : alone.rolls[key][a] = rolls[key][i]

-----------------------------------------------------------------------------
\* C4: a rolling statistic of window w at a row is undefined when fewer than
\* max(1, w div 2) defined values are among the trailing w elements of the
\* region's lag-1 series ending at the row, and defined otherwise (the std,
\* which needs two observations, when there are at least two as well).
MinimumObservations ==
    Done =>
        \A c \in EngCols, w \in Range(ROLLING_WINDOWS), i \in DOMAIN df :
            LET ser == RegionIdx(df, df[i].kingdom)
                p == PosIn(ser, i)
                trailing == {q \in DOMAIN ser : p - w < q /\ q <= p}
                have == Cardinality({q \in trailing : lags[<<c, 1>>][ser[q]] # NaN})
                need == IF w \div 2 >= 1 THEN w \div 2 ELSE 1
            IN \A st \in STATS :
                /\ have < need => rolls[<<c, w, st>>][i] = NaN
                /\ (have >= need /\ (st = "std" => have >= 2)) =>
                        rolls[<<c, w, st>>][i] # NaN

-----------------------------------------------------------------------------
\* C8: the conversion replaces a defined temperature strictly greater than
\* 70 by the value minus 273.15 and leaves a value of exactly 70, every value
\* below 70 and every undefined value unchanged, in both temperature columns.
KelvinBoundary ==
    [][pc = "convert" =>
        /\ Len(df') = Len(df)
        /\ \A i \in DOMAIN df, col \in Range(temp_cols) \cap columns :
            LET x == df[i][col]
            IN df'[i][col] =
                 IF x # NaN /\ x[1] > 70 * Scale
                 THEN <<x[1] - (Scale * 27315) \div 100>> ELSE x]_vars

\* A converted table holding 70.0 and 69.9999 unchanged, 70.0001 converted
\* and an undefined value.
KelvinWitness ==
    /\ pc = "converted"
    /\ Range(temp_cols) \subseteq columns
    /\ \E i, j \in DOMAIN df :
        /\ df[i].Avg_Temperature = Cell(70 * Scale)
        /\ df[i].Avg_Feels_Like_Temperature = Cell(70 * Scale + 1 - (27315 * Scale) \div 100)
        /\ df[j].Avg_Temperature = Cell(70 * Scale - 1)
        /\ df[j].Avg_Feels_Like_Temperature = NaN

-----------------------------------------------------------------------------
\* C9: the reconstructed wind direction lies in [0, 360) for every pair of
\* predicted sine and cosine, the pair (0, 0) included, and the sine and
\* cosine of the directions 0, 90, 180 and 270 give back the direction.
CircularRoundTrip ==
    /\ \A i \in DOMAIN test_ids :
        (/\ "Wind_Direction" \in DOMAIN predictions
         /\ notna(predictions["Wind_Direction_sin"][i])
         /\ notna(predictions["Wind_Direction_cos"][i])) =>
            /\ notna(predictions["Wind_Direction"][i])
            /\ 0 <= predictions["Wind_Direction"][i][1]
            /\ predictions["Wind_Direction"][i][1] < 360 * Fine
    /\ reconstruct(Cell(0), Cell(Fine)) = Cell(0)
    /\ reconstruct(Cell(Fine), Cell(0)) = Cell(90 * Fine)
    /\ reconstruct(Cell(0), Cell(-Fine)) = Cell(180 * Fine)
    /\ reconstruct(Cell(-Fine), Cell(0)) = Cell(270 * Fine)

-----------------------------------------------------------------------------
\* C10: every cell of the written submission is defined: the file has the
\* rows of the left merge of the sample IDs with the final predictions, each
\* cell holding the merged value when that is defined and 0 when it is not
\* (no prediction row for the ID, an undefined prediction, a direction from
\* an undefined sine or cosine), also when a target's training was skipped.
NoNullsWritten ==
    pc = "written" =>
        LET expected == MergeLeft(sample_sub, predictions_final, Len(sample_sub))
        IN /\ Len(submission) = Len(expected)
           /\ \A k \in DOMAIN submission, c \in Range(final_prediction_columns) :
                /\ submission[k][c] # NaN
                /\ submission[k][c] = IF expected[k][c] # NaN THEN expected[k][c] ELSE <<0>>

\* A written file with a sample ID that has no prediction row, an undefined
\* temperature prediction, a direction from an undefined sine, and a target
\* whose training was skipped.
NoNullsWitness ==
    /\ pc = "written"
    /\ Len(sample_sub) > Len(test_ids)
    /\ Len(test_ids) > 0
    /\ predictions["Avg_Temperature"][1] = NaN
    /\ predictions["Wind_Direction_sin"][1] = NaN
    /\ predictions["Wind_Direction"][1] = NaN
    /\ \A i \in DOMAIN df_train : df_train[i]["Radiation"] = NaN
    /\ submission[1]["Wind_Direction"] = Cell(0)
    /\ submission[Len(submission)]["Avg_Temperature"] = Cell(0)

====
